---- MODULE Spec2Model ----
(***************************************************************************)
(* rtfraptor/engine.py: the hook handlers of CustomEventHandler and the    *)
(* event loop of office_debugger, as one state machine.  The debug engine  *)
(* (winappdbg), the target process, its memory and the disk are the        *)
(* environment: what they deliver is drawn from small sets.                *)
(***************************************************************************)
EXTENDS Integers, Sequences, FiniteSets, TLC

\* ------------------------------------------------------------------ bounds
MaxLen == 1         \* bytes of target memory readable at the stream's data pointer
MaxEvents == 4      \* debug events one session delivers at most
MaxCalls == 5       \* hook calls one handler receives at most
MaxTimeout == 2     \* the timeout argument is 1..MaxTimeout clock ticks
MaxIdleTimeout == 9 \* the same, for the sessions in which every wait times out
MaxPairCalls == 4   \* hook calls two handlers in one process receive at most

\* ------------------------------------------------------------- value spaces
\* Python's None (engine.py:27), kept an integer so that it compares with handles.
None == -1

\* Storage handles (pStg addresses); 0 is the null pointer.
Handles == {0, 1, 2}
ByteVals == {0, 1}

NoExc == "no exception"

\* The three functions of ole32.dll that _hooks names, by their hook method.
Funcs == {"OleLoad", "OleConvertOLESTREAMToIStorage", "OleGetAutoConvert"}

\* Python truthiness of the value held in _last_pstg: None and 0 are false.
Truthy(v) == v # None /\ v # 0

\* ------------------------------------------------------ class identifiers
\* 16 raw bytes as they lie in the target's memory (a GUID structure).
PackageRaw == <<12, 0, 3, 0, 0, 0, 0, 0, 192, 0, 0, 0, 0, 0, 0, 70>>
\* Raw bytes that spell 0003000C-... only when printed without reordering.
SpelledRaw == <<0, 3, 0, 12, 0, 0, 0, 0, 192, 0, 0, 0, 0, 0, 0, 70>>
ClsidSamples == {PackageRaw, SpelledRaw}

\* utils.bytes_to_clsid: the textual form of a GUID, as the sequence of the
\* bytes its hex digits print: the first three fields are little-endian in
\* memory, the last eight bytes print in memory order.
bytes_to_clsid(b) ==
    << b[4], b[3], b[2], b[1], b[6], b[5], b[8], b[7] >> \o SubSeq(b, 9, 16)

\* oletools' KNOWN_CLSIDS, two of its entries, keyed by the textual form.
KNOWN_CLSIDS ==
    (<<0, 3, 0, 12, 0, 0, 0, 0, 192, 0, 0, 0, 0, 0, 0, 70>> :> "Package")
    @@ (<<0, 2, 9, 6, 0, 0, 0, 0, 192, 0, 0, 0, 0, 0, 0, 70>>
            :> "Microsoft Word 97-2003 Document (Word.Document.8)")

\* hashlib.sha256(data).hexdigest(): distinct byte strings get distinct
\* digests (a bijective numeration of the byte string stands for the hash).
RECURSIVE sha256(_)
sha256(data) ==
    IF data = <<>> THEN 0
    ELSE 1 + Head(data) + (Cardinality(ByteVals) * sha256(Tail(data)))


\* ------------------------------------------------------------------- state
VARIABLES
    pc,          \* where office_debugger is
    exc,         \* the exception that is propagating in office_debugger, or NoExc
    now,         \* what time() returns
    max_time,    \* the deadline, time() + timeout
    debugees,    \* debug.get_debugee_count()
    event,       \* the event the last wait delivered, until it is resumed
    nEvents,     \* events delivered so far
    hooks,       \* the functions whose breakpoint is installed in the target
    _last_pstg,  \* CustomEventHandler._last_pstg
    objects,     \* CustomEventHandler.objects: pstg -> info
    files,       \* the working directory: file name (a digest) -> content
    log,         \* the records the latest logging step gave the logger: [level, msg]
    shadowed,    \* the value of _last_pstg that the latest _hook_load replaced
    owed,        \* delivered events minus calls of debug.cont
    stopCalls,   \* calls of debug.stop
    save_objs,   \* the argument save_objs of office_debugger
    result,      \* what the caller of office_debugger has got from it
    attrs        \* where several handlers live in one process: the attributes
                 \* of the class CustomEventHandler and of each instance

handlerVars == << hooks, _last_pstg, objects, files, log, shadowed >>
vars == << pc, exc, now, max_time, debugees, event, nEvents, hooks,
           _last_pstg, objects, files, log, shadowed, owed, stopCalls,
           save_objs, result, attrs >>

NoEvent == [kind |-> "none"]

Logged(level, msg) == [level |-> level, msg |-> msg]

\* The levels of the logging module, lowest first, and the rank of one.
LogLevels == << "debug", "info", "warning", "error", "critical" >>
Severity(level) == CHOOSE i \in DOMAIN LogLevels : LogLevels[i] = level

\* ------------------------------------------------- CustomEventHandler hooks
\* _hook_load (l. 34-43): remember the pStg argument.
\* Remembered, were a pending handle kept until it is consumed.
RememberedFirst(old, pstg) == IF old = None THEN pstg ELSE old

\* l. 43: the pStg that is pending after OleLoad(pstg) when `old` was.
Remembered(old, pstg) == pstg

_hook_load(pstg, raised) ==
    /\ raised = NoExc
    /\ _last_pstg' = Remembered(_last_pstg, pstg)
    /\ shadowed' = _last_pstg
    /\ UNCHANGED << hooks, objects, files, log >>

\* Description, were the table never consulted.
DescriptionGeneric(clsid) == "Unknown (not blacklisted)"

\* l. 57-63: the description the table gives a class identifier.
Description(clsid) ==
    IF clsid \in DOMAIN KNOWN_CLSIDS
    THEN KNOWN_CLSIDS[clsid]
    ELSE "Unknown (not blacklisted)"

\* l. 55-63: the info dictionary with the two keys classification sets.
Classified(info, clsid) ==
    [size |-> info.size, sha256 |-> info.sha256,
     class_id |-> clsid, description |-> Description(clsid)]

\* l. 57-63: what classification logs.
ClassificationLog(clsid) ==
    IF clsid \in DOMAIN KNOWN_CLSIDS
    THEN {Logged("warning", "Suspicious OLE object loaded, class id %s (%s)"),
          Logged("warning", "Object size is %d, SHA256 is %s")}
    ELSE {Logged("warning", "Object found but not on blacklist %s")}

\* _hook_guid_conversion, were the guard of l. 53 missing and the info of the
\* slot's value made on demand.
GuidConversionUnguarded(ev, raised) ==
    IF ~ev.readable
    THEN /\ raised = "WindowsError"
         /\ UNCHANGED handlerVars
    ELSE LET clsid == bytes_to_clsid(ev.clsid_bytes)
             info == IF _last_pstg \in DOMAIN objects
                     THEN objects[_last_pstg]
                     ELSE [size |-> 0, sha256 |-> sha256(<< >>)]
         IN  /\ raised = NoExc
             /\ objects' = (_last_pstg :> Classified(info, clsid)) @@ objects
             /\ log' = ClassificationLog(clsid)
             /\ _last_pstg' = None
             /\ UNCHANGED << hooks, files, shadowed >>

\* _hook_guid_conversion (l. 45-65).  ev.clsid_bytes is what the 16 bytes at
\* clsid_old hold, ev.readable whether process.read can read them.
_hook_guid_conversion(ev, raised) ==
    IF ~ev.readable
    THEN \* process.read raises (l. 47)
         /\ raised = "WindowsError"
         /\ UNCHANGED handlerVars
    ELSE LET clsid == bytes_to_clsid(ev.clsid_bytes) IN
         IF Truthy(_last_pstg)
         THEN IF _last_pstg \notin DOMAIN objects
              THEN \* self.objects[self._last_pstg] raises (l. 54)
                   /\ raised = "KeyError"
                   /\ UNCHANGED handlerVars
              ELSE /\ raised = NoExc
                   /\ objects' = [objects EXCEPT
                          ![_last_pstg] = Classified(objects[_last_pstg], clsid)]
                   /\ log' = ClassificationLog(clsid)
                   /\ _last_pstg' = None
                   /\ UNCHANGED << hooks, files, shadowed >>
         ELSE /\ raised = NoExc
              /\ UNCHANGED handlerVars

\* The reads of l. 76-77: the pointer field, the pointer it holds, the length field.
Faults == {"inner", "outer", "length"}

\* process.read(data_addr, size) (l. 78): exactly size bytes, or nothing when
\* the region is shorter than size.
ReadBytes(mem, size) == SubSeq(mem, 1, size)
CanRead(mem, size) == size <= Len(mem)

\* ReadsFail, were an unreadable length field taken as length 0.
ReadsFailButLength(ev) == ev.fault \in {"inner", "outer"} \/ ~CanRead(ev.mem, ev.size)

\* l. 76-78: one of the four remote reads raises, which ends the method.
ReadsFail(ev) == ev.fault \in Faults \/ ~CanRead(ev.mem, ev.size)

\* Extracted, were hasher.update (l. 81) left out.
ExtractedWithoutUpdate(size, data) == [size |-> size, sha256 |-> sha256(<< >>)]

\* l. 68, 77, 82: the info dictionary of a new object.
Extracted(size, data) == [size |-> size, sha256 |-> sha256(data)]

\* l. 85-86: what the file holds when fh.write, or the close that flushes
\* it, raises: open(name, 'wb') has emptied the file, and less than data got in.
Truncations(data) == { SubSeq(data, 1, k) : k \in 0 .. Len(data) - 1 }

\* Recorded, were the dictionary made anew around the one object.
RecordedAlone(objs, pstg, info) == pstg :> info

\* Recorded, were the new keys put into the object that the handle has.
RecordedMerged(objs, pstg, info) ==
    (pstg :> (IF pstg \in DOMAIN objs THEN info @@ objs[pstg] ELSE info)) @@ objs

\* l. 88: self.objects[pstg] = info; the dictionary afterwards.
Recorded(objs, pstg, info) == (pstg :> info) @@ objs

\* _hook_data_conversion (l. 67-90).  ev.fault names the first read of
\* l. 76-77 that fails ("inner", "outer", "length") or is "none"; ev.size is
\* the dword at lpolestream + 12, ev.mem the bytes readable at the data
\* pointer; open() raises, or the write does, or the file is written.
_hook_data_conversion(ev, raised) ==
    IF ReadsFail(ev)
    THEN /\ raised = "WindowsError"
         /\ UNCHANGED handlerVars
    ELSE LET data == ReadBytes(ev.mem, ev.size)
             info == Extracted(ev.size, data)
         IN  \/ \* open() raises (l. 85)
                  /\ raised = "IOError"
                  /\ UNCHANGED handlerVars
             \/ \* fh.write raises (l. 86)
                  /\ raised = "IOError"
                  /\ \E part \in Truncations(data) :
                        files' = (info.sha256 :> part) @@ files
                  /\ UNCHANGED << hooks, _last_pstg, objects, log, shadowed >>
             \/   /\ raised = NoExc
                  /\ files' = (info.sha256 :> data) @@ files
                  /\ objects' = Recorded(objects, ev.pstg, info)
                  /\ log' = {Logged("debug",
                        "Dumping data from 0x%08x, destination 0x%08x, length %d, hash %s")}
                  /\ UNCHANGED << hooks, _last_pstg, shadowed >>

\* _apply_hooks (l. 92-110): the functions hooked when the declared ones are
\* visited in `order` and those in `resolved` resolve; the visit ends at the
\* first one that does not resolve (l. 108).
RECURSIVE _apply_hooks(_, _)
_apply_hooks(order, resolved) ==
    IF order = << >> THEN {}
    ELSE IF Head(order) \in resolved
         THEN {Head(order)} \cup _apply_hooks(Tail(order), resolved)
         ELSE {}

\* l. 102, 107: what _apply_hooks logs.
ApplyHooksLog(order, resolved) ==
    (IF _apply_hooks(order, resolved) # {}
     THEN {Logged("debug", "Address of %s is 0x%08x")} ELSE {})
    \cup (IF \E i \in 1 .. Len(order) : order[i] \notin resolved
          THEN {Logged("error", "Could not find function %s to hook")} ELSE {})

\* load_dll (l. 112-124).  ev.matches: module.match_name("ole32.dll").
load_dll(ev, raised) ==
    /\ raised = NoExc
    /\ IF ev.matches
       THEN /\ hooks' = hooks \cup _apply_hooks(ev.order, ev.resolved)
            /\ log' = {Logged("debug", "Process loaded %s, hooks exist for this module")}
                 \cup ApplyHooksLog(ev.order, ev.resolved)
       ELSE UNCHANGED << hooks, log >>
    /\ UNCHANGED << _last_pstg, objects, files, shadowed >>

\* The orders in which a dictionary of the three declared functions iterates.
Orders == { o \in [1 .. 3 -> Funcs] : \A f \in Funcs : \E i \in 1 .. 3 : o[i] = f }

\* ---------------------------------------------------------- office_debugger
Exceptions == {"WindowsError", "KeyError", "IOError"}

\* l. 12, 23-27: the class, and its one attribute that is data.
HandlerClass == "CustomEventHandler"
ClassAttrs == [_last_pstg |-> None]

\* l. 127-140: the handler is new, nothing is launched, the deadline is set;
\* the caller has nothing yet.
InitWith(start, timeouts, flags) ==
    /\ pc = start
    /\ exc = NoExc
    /\ now = 0
    /\ max_time \in { now + t : t \in timeouts }
    /\ debugees = 0
    /\ event = NoEvent
    /\ nEvents = 0
    /\ hooks = {}
    /\ _last_pstg = None
    /\ objects = << >>
    /\ files = << >>
    /\ log = {}
    /\ shadowed = None
    /\ owed = 0
    /\ stopCalls = 0
    /\ save_objs \in flags
    /\ result = None
    /\ attrs = (HandlerClass :> ClassAttrs)

Init == InitWith("execv", 1 .. MaxTimeout, BOOLEAN)

\* l. 142-145: debug.execv starts the target, or raises WindowsError, which is
\* logged and nothing else.
Execv ==
    /\ pc = "execv"
    /\ \E started \in BOOLEAN :
         /\ debugees' = IF started THEN 1 ELSE 0
         /\ log' = IF started THEN log
                   ELSE {Logged("error",
                          "Could not run Office application, check it is 32-bit")}
    /\ pc' = "while"
    /\ UNCHANGED << exc, now, max_time, event, nEvents, hooks, _last_pstg,
                    objects, files, shadowed, owed, stopCalls >>
    /\ UNCHANGED << save_objs, result, attrs >>

\* Finally, were debug.stop() after the loop and not in a finally clause.
FinallyOnlyOnReturn(e) == IF e = NoExc THEN "stop" ELSE "raised"

\* l. 147, 164-165: whatever way the try block is left, with an exception e
\* or none, debug.stop() is next.
Finally(e) == "stop"

\* LoopCondition, were the debuggee count not looked at.
LoopConditionDeadlineOnly == now < max_time

\* l. 148: the loop condition.
LoopCondition == debugees > 0 /\ now < max_time

While ==
    /\ pc = "while"
    /\ pc' = IF LoopCondition THEN "wait" ELSE Finally(NoExc)
    /\ UNCHANGED << exc, now, max_time, debugees, event, nEvents, owed, stopCalls >>
    /\ UNCHANGED handlerVars
    /\ UNCHANGED << save_objs, result, attrs >>

\* AfterTimeout, were the continue of l. 156 missing.
AfterTimeoutFallsThrough == "dispatch"

\* l. 153-156: where the loop goes when wait raised a timeout.
AfterTimeout == "while"

\* l. 151-156: debug.wait(1000) raises WindowsError with a timeout code after
\* its second has passed: continue.
WaitTimeout ==
    /\ pc = "wait"
    /\ now' = now + 1
    /\ pc' = AfterTimeout
    /\ UNCHANGED << exc, max_time, debugees, event, nEvents, owed, stopCalls >>
    /\ UNCHANGED handlerVars
    /\ UNCHANGED << save_objs, result, attrs >>

\* l. 153-157: debug.wait raises WindowsError with another code: re-raised,
\* the outer finally runs.
WaitError ==
    /\ pc = "wait"
    /\ exc' = "WindowsError"
    /\ pc' = Finally(exc')
    /\ UNCHANGED << now, max_time, debugees, event, nEvents, owed, stopCalls >>
    /\ UNCHANGED handlerVars
    /\ UNCHANGED << save_objs, result, attrs >>

\* l. 151: debug.wait returns with the event `ev` before its second has passed.
Deliver(ev) ==
    /\ pc = "wait"
    /\ nEvents < MaxEvents
    /\ event' = ev
    /\ nEvents' = nEvents + 1
    /\ owed' = owed + 1
    /\ pc' = "dispatch"
    /\ UNCHANGED << exc, now, max_time, debugees, stopCalls >>
    /\ UNCHANGED handlerVars
    /\ UNCHANGED << save_objs, result, attrs >>

\* ole32.dll loads, with the functions in r resolving and the dictionary of
\* its hooks iterating in order o; or another module loads.
LoadDllEvents ==
    { [kind |-> "load_dll", matches |-> TRUE, order |-> o, resolved |-> r] :
        o \in Orders, r \in SUBSET Funcs }
    \cup { [kind |-> "load_dll", matches |-> FALSE, order |-> << >>, resolved |-> {}] }

\* The target calls OleLoad with pStg = h.
OleLoadEvents == { [kind |-> "OleLoad", pstg |-> h] : h \in Handles }

\* The target calls OleGetAutoConvert; clsid_old points at b, or nowhere.
OleGetAutoConvertEvents ==
    { [kind |-> "OleGetAutoConvert", clsid_bytes |-> b, readable |-> TRUE] :
        b \in ClsidSamples }
    \cup { [kind |-> "OleGetAutoConvert", clsid_bytes |-> << >>, readable |-> FALSE] }

\* The target calls OleConvertOLESTREAMToIStorage with pstg = h: one of the
\* reads of l. 76-77 fails, or the stream declares n bytes where m is readable.
OleConvertEvents(memory) ==
    { [kind |-> "OleConvertOLESTREAMToIStorage", pstg |-> h, fault |-> f,
       size |-> 0, mem |-> << >>] : h \in Handles, f \in Faults }
    \cup { [kind |-> "OleConvertOLESTREAMToIStorage", pstg |-> h, fault |-> "none",
            size |-> n, mem |-> m] :
             h \in Handles, n \in 0 .. MaxLen + 1, m \in memory }

\* What the target's memory holds at the data pointer: one document.
SessionMemory == { [i \in 1 .. MaxLen |-> i % 2] }

WaitLoadDll ==
    /\ pc = "wait"
    /\ \E ev \in LoadDllEvents : Deliver(ev)

WaitOleLoad ==
    /\ "OleLoad" \in hooks
    /\ \E ev \in OleLoadEvents : Deliver(ev)

WaitOleGetAutoConvert ==
    /\ "OleGetAutoConvert" \in hooks
    /\ \E ev \in OleGetAutoConvertEvents : Deliver(ev)

WaitOleConvert ==
    /\ "OleConvertOLESTREAMToIStorage" \in hooks
    /\ \E ev \in OleConvertEvents(SessionMemory) : Deliver(ev)

\* The target exits: the exit_process event.
WaitExitProcess ==
    /\ pc = "wait"
    /\ Deliver([kind |-> "exit_process"])

\* Any event the handler has no method for; `bad` when the engine's own
\* processing of it fails.
WaitOther ==
    /\ pc = "wait"
    /\ \E bad \in BOOLEAN : Deliver([kind |-> "other", bad |-> bad])

\* The method of CustomEventHandler that debug.dispatch() calls for an event.
Handle(ev, raised) ==
    CASE ev.kind = "load_dll" -> load_dll(ev, raised)
      [] ev.kind = "OleLoad" -> _hook_load(ev.pstg, raised)
      [] ev.kind = "OleGetAutoConvert" -> _hook_guid_conversion(ev, raised)
      [] ev.kind = "OleConvertOLESTREAMToIStorage" -> _hook_data_conversion(ev, raised)
      [] ev.kind = "exit_process" -> raised = NoExc /\ UNCHANGED handlerVars
      [] ev.kind = "other" ->
            /\ raised = IF ev.bad THEN "WindowsError" ELSE NoExc
            /\ UNCHANGED handlerVars

\* AfterDispatch, were debug.cont() after dispatch and not in a finally clause.
AfterDispatchNoFinally(raised) == IF raised = NoExc THEN "cont" ELSE "stop"

\* l. 160-163: try: dispatch() finally: cont(): cont is next however dispatch ends.
AfterDispatch(raised) == "cont"

\* l. 161: debug.dispatch().  An exception that leaves a hook method either
\* leaves dispatch too or is reported by the engine, which then returns.
Dispatch ==
    /\ pc = "dispatch"
    /\ \E raised \in Exceptions \cup {NoExc}, reported \in BOOLEAN :
         /\ Handle(event, raised)
         /\ reported => (raised \in Exceptions /\ event.kind # "other")
         /\ exc' = IF reported THEN NoExc ELSE raised
         /\ pc' = AfterDispatch(exc')
    /\ debugees' = IF event.kind = "exit_process" THEN 0 ELSE debugees
    /\ UNCHANGED << now, max_time, event, nEvents, owed, stopCalls >>
    /\ UNCHANGED << save_objs, result, attrs >>

\* l. 163: debug.cont() resumes the target; the loop goes on unless an
\* exception is propagating.
Cont ==
    /\ pc = "cont"
    /\ owed' = owed - 1
    /\ event' = NoEvent
    /\ pc' = IF exc = NoExc THEN "while" ELSE Finally(exc)
    /\ UNCHANGED << exc, now, max_time, debugees, nEvents, stopCalls >>
    /\ UNCHANGED handlerVars
    /\ UNCHANGED << save_objs, result, attrs >>

\* l. 164-165: debug.stop(), then the exception leaves the function or the
\* function ends; it has no return statement, so the call's value is None.
Stop ==
    /\ pc = "stop"
    /\ stopCalls' = stopCalls + 1
    /\ debugees' = 0
    /\ pc' = IF exc = NoExc THEN "returned" ELSE "raised"
    /\ result' = IF exc = NoExc THEN None ELSE result
    /\ UNCHANGED << exc, now, max_time, event, nEvents, owed >>
    /\ UNCHANGED handlerVars
    /\ UNCHANGED << save_objs, attrs >>

Next ==
    \/ Execv
    \/ While
    \/ WaitTimeout
    \/ WaitError
    \/ WaitLoadDll
    \/ WaitOleLoad
    \/ WaitOleGetAutoConvert
    \/ WaitOleConvert
    \/ WaitExitProcess
    \/ WaitOther
    \/ Dispatch
    \/ Cont
    \/ Stop

Spec == Init /\ [][Next]_vars

\* ------------------------------------------- sessions in which nothing happens
\* Every debug.wait times out.  The loop is one thread that blocks nowhere
\* but in wait, which returns within its second: each step is taken.
IdleInit == InitWith("execv", 1 .. MaxIdleTimeout, {TRUE})

IdleNext == Execv \/ While \/ WaitTimeout \/ Stop

IdleSpec == IdleInit /\ [][IdleNext]_vars /\ WF_vars(IdleNext)

\* ------------------------------------------------ the hook methods by themselves
\* The three hook methods of one CustomEventHandler, called with any
\* arguments in any order, as the engine calls them once the hooks are in.
HookInit == InitWith("hooks", {1}, {TRUE})

Call(ev) ==
    /\ pc = "hooks"
    /\ nEvents < MaxCalls
    /\ event' = ev
    /\ nEvents' = nEvents + 1
    /\ \E raised \in Exceptions \cup {NoExc} :
         /\ Handle(ev, raised)
         /\ exc' = raised
    /\ UNCHANGED << pc, now, max_time, debugees, owed, stopCalls >>
    /\ UNCHANGED << save_objs, result, attrs >>

CallOleLoad ==
    /\ pc = "hooks"
    /\ \E ev \in OleLoadEvents : Call(ev)

CallOleGetAutoConvert ==
    /\ pc = "hooks"
    /\ \E ev \in OleGetAutoConvertEvents : Call(ev)

CallOleConvert ==
    /\ pc = "hooks"
    /\ \E ev \in OleConvertEvents(SessionMemory) : Call(ev)

HookNext == CallOleLoad \/ CallOleGetAutoConvert \/ CallOleConvert

HookSpec == HookInit /\ [][HookNext]_vars

\* ------------------------------------------------ two handlers in one process
\* Two CustomEventHandler objects are made and their hook methods called in
\* any order.  attrs[o] is the __dict__ of o, the class or an instance.
HandlerIds == {"handler1", "handler2"}

\* self.<name> in a method of h: the instance's own attribute when it has
\* one, else the attribute of the class.
GetAttr(a, h, name) ==
    IF name \in DOMAIN a[h] THEN a[h][name] ELSE a[HandlerClass][name]

\* AssignTarget, were the assignment made to CustomEventHandler._last_pstg.
AssignTargetClass(h) == HandlerClass

\* l. 43, 65: an assignment to self._last_pstg binds the attribute of the
\* instance, whether or not the instance had it.
AssignTarget(h) == h

SetAttr(a, h, name, v) == [a EXCEPT ![AssignTarget(h)] = (name :> v) @@ @]

\* CustomEventHandler(logger) (l. 29-32): a new instance with its own dictionary.
PairNew ==
    /\ pc = "pair"
    /\ \E h \in HandlerIds \ DOMAIN attrs :
         attrs' = (h :> [objects |-> << >>]) @@ attrs
    /\ UNCHANGED << pc, exc, now, max_time, debugees, event, nEvents, owed, stopCalls,
                    save_objs, result >>
    /\ UNCHANGED handlerVars

\* _hook_load of h (l. 34-43).
PairHookLoad(h, ev, raised) ==
    /\ raised = NoExc
    /\ attrs' = SetAttr(attrs, h, "_last_pstg", ev.pstg)
    /\ UNCHANGED << files, log >>

\* _hook_guid_conversion of h (l. 45-65); info is changed in place in the
\* dictionary that self.objects names (l. 32: the instance's own).
PairHookGuidConversion(h, ev, raised) ==
    LET last == GetAttr(attrs, h, "_last_pstg")
        objs == GetAttr(attrs, h, "objects")
        clsid == bytes_to_clsid(ev.clsid_bytes)
    IN  IF ~ev.readable
        THEN raised = "WindowsError" /\ UNCHANGED << attrs, files, log >>
        ELSE IF ~Truthy(last)
        THEN raised = NoExc /\ UNCHANGED << attrs, files, log >>
        ELSE IF last \notin DOMAIN objs
        THEN raised = "KeyError" /\ UNCHANGED << attrs, files, log >>
        ELSE /\ raised = NoExc
             /\ attrs' = SetAttr(
                    [attrs EXCEPT ![h].objects[last] = Classified(objs[last], clsid)],
                    h, "_last_pstg", None)
             /\ log' = ClassificationLog(clsid)
             /\ UNCHANGED files

\* _hook_data_conversion of h (l. 67-90).
PairHookDataConversion(h, ev, raised) ==
    IF ReadsFail(ev)
    THEN raised = "WindowsError" /\ UNCHANGED << attrs, files, log >>
    ELSE LET data == ReadBytes(ev.mem, ev.size)
             info == Extracted(ev.size, data)
         IN  \/ raised = "IOError" /\ UNCHANGED << attrs, files, log >>
             \/ /\ raised = "IOError"
                /\ \E part \in Truncations(data) :
                      files' = (info.sha256 :> part) @@ files
                /\ UNCHANGED << attrs, log >>
             \/ /\ raised = NoExc
                /\ files' = (info.sha256 :> data) @@ files
                /\ attrs' = [attrs EXCEPT ![h].objects =
                                Recorded(GetAttr(attrs, h, "objects"), ev.pstg, info)]
                /\ log' = {Logged("debug",
                      "Dumping data from 0x%08x, destination 0x%08x, length %d, hash %s")}

\* One call of a hook method of the instance h; event.self names h.
PairCall(h, ev) ==
    /\ pc = "pair"
    /\ nEvents < MaxPairCalls
    /\ h \in DOMAIN attrs
    /\ event' = [self |-> h] @@ ev
    /\ nEvents' = nEvents + 1
    /\ \E raised \in Exceptions \cup {NoExc} :
         /\ CASE ev.kind = "OleLoad" -> PairHookLoad(h, ev, raised)
              [] ev.kind = "OleGetAutoConvert" -> PairHookGuidConversion(h, ev, raised)
              [] ev.kind = "OleConvertOLESTREAMToIStorage" ->
                    PairHookDataConversion(h, ev, raised)
         /\ exc' = raised
    /\ UNCHANGED << pc, now, max_time, debugees, owed, stopCalls, save_objs, result,
                    hooks, _last_pstg, objects, shadowed >>

PairCallOleLoad ==
    /\ pc = "pair"
    /\ \E h \in HandlerIds, ev \in OleLoadEvents : PairCall(h, ev)

PairCallOleGetAutoConvert ==
    /\ pc = "pair"
    /\ \E h \in HandlerIds, ev \in OleGetAutoConvertEvents : PairCall(h, ev)

PairCallOleConvert ==
    /\ pc = "pair"
    /\ \E h \in HandlerIds, ev \in OleConvertEvents(SessionMemory) : PairCall(h, ev)

PairInit == InitWith("pair", {1}, {TRUE})

PairNext == PairNew \/ PairCallOleLoad \/ PairCallOleGetAutoConvert \/ PairCallOleConvert

PairSpec == PairInit /\ [][PairNext]_vars


\* ================================================================== claims

\* C1: when office_debugger is over, by return or by an exception leaving
\* it, debug.stop has been called and no debuggee is left, however the
\* loop ended.
C1_StopAlwaysCalled ==
    pc \in {"returned", "raised"} => stopCalls >= 1 /\ debugees = 0

\* A session that a KeyError raised in dispatch ended, stopped.
C1_Witness ==
    pc = "raised" /\ exc = "KeyError" /\ stopCalls = 1 /\ nEvents >= 2

\* C2: between a delivered event and the next wait or stop lies exactly one
\* debug.cont: at dispatch and at cont one event is unresumed, everywhere
\* else none is, so a wait that timed out is followed by neither.
C2_OneResumePerEvent ==
    /\ pc \in {"dispatch", "cont"} => owed = 1 /\ event # NoEvent
    /\ pc \notin {"dispatch", "cont"} => owed = 0 /\ event = NoEvent

\* An exception raised in dispatch is on its way to stop, and the event was resumed.
C2_Witness ==
    pc = "stop" /\ exc = "WindowsError" /\ nEvents = 2 /\ owed = 0 /\ hooks # {}

\* C3: when every wait times out, office_debugger returns: no exception is
\* ever raised, nothing is dispatched or resumed, and the target is stopped.
C3_IdleSessionStops ==
    /\ [](pc \notin {"dispatch", "cont", "raised"} /\ exc = NoExc /\ owed = 0)
    /\ <>(pc = "returned" /\ stopCalls = 1 /\ debugees = 0 /\ nEvents = 0)

\* A session that waited out a deadline of several ticks and returned.
C3_Witness ==
    pc = "returned" /\ stopCalls = 1 /\ now = max_time /\ now >= 3


\* A step of HookSpec that is a call of the hook method of `kind`.
Called(kind) == nEvents' = nEvents + 1 /\ event'.kind = kind

\* The first n bytes of the region m.
Prefix(m, n) == [i \in 1 .. n |-> m[i]]

\* C4: a guid-conversion call made with a pending handle empties the slot
\* and completes, whether or not an object is tracked under the handle; a
\* tracked one gets the class identifier and a description.  (Stated for a
\* nonzero handle and a readable identifier.)
C4_PendingAlwaysConsumed ==
    [][ (Called("OleGetAutoConvert") /\ Truthy(_last_pstg) /\ event'.readable)
        => /\ exc' = NoExc
           /\ _last_pstg' = None
           /\ _last_pstg \in DOMAIN objects
                => /\ "class_id" \in DOMAIN objects'[_last_pstg]
                   /\ objects'[_last_pstg].description # "" ]_vars

\* C5: a guid-conversion call that finds the pending handle tracked sets its
\* object's class identifier to the one read and its description to the
\* table's value, or to the generic marker when the table has none, and
\* changes no other object.
C5_Classification ==
    [][ (Called("OleGetAutoConvert") /\ Truthy(_last_pstg) /\ event'.readable
            /\ _last_pstg \in DOMAIN objects)
        => LET p == _last_pstg
               id == bytes_to_clsid(event'.clsid_bytes)
           IN  /\ DOMAIN objects' = DOMAIN objects
               /\ objects'[p].class_id = id
               /\ id \in DOMAIN KNOWN_CLSIDS
                    => objects'[p].description = KNOWN_CLSIDS[id]
               /\ id \notin DOMAIN KNOWN_CLSIDS
                    => objects'[p].description = "Unknown (not blacklisted)"
               /\ objects'[p].size = objects[p].size
               /\ objects'[p].sha256 = objects[p].sha256
               /\ \A h \in DOMAIN objects \ {p} : objects'[h] = objects[h] ]_vars

\* The latest call classified one object as known and left another alone.
C5_Witness ==
    /\ event.kind = "OleGetAutoConvert" /\ event.readable /\ exc = NoExc
    /\ _last_pstg = None
    /\ \E p, h \in DOMAIN objects :
         /\ "class_id" \in DOMAIN objects[p]
         /\ objects[p].class_id = bytes_to_clsid(event.clsid_bytes)
         /\ objects[p].description = "Package"
         /\ "class_id" \notin DOMAIN objects[h]

\* C6: the slot holds one value; an object-load call leaves it equal to the
\* call's pStg whatever it held; the guid-conversion call that follows
\* changes no object but the one keyed by the slot, so that the object of a
\* handle that a later load replaced stays as it was.
C6_LoadOverwritesPending ==
    /\ [](_last_pstg \in Handles \cup {None})
    /\ [][ Called("OleLoad")
           => _last_pstg' = event'.pstg /\ objects' = objects ]_vars
    /\ [][ Called("OleGetAutoConvert")
           => /\ DOMAIN objects' = DOMAIN objects
              /\ \A h \in DOMAIN objects :
                    h # _last_pstg => objects'[h] = objects[h]
              /\ (exc' = NoExc /\ Truthy(_last_pstg))
                    => "class_id" \in DOMAIN objects'[_last_pstg] ]_vars

\* After OleLoad(H1), OleLoad(H2): H2's object is classified, H1's is not.
C6_Witness ==
    /\ event.kind = "OleGetAutoConvert" /\ exc = NoExc /\ _last_pstg = None
    /\ shadowed \in DOMAIN objects
    /\ "class_id" \notin DOMAIN objects[shadowed]
    /\ \E h \in DOMAIN objects : h # shadowed /\ "class_id" \in DOMAIN objects[h]

\* C7: a guid-conversion call made while nothing is pending leaves the
\* objects, the slot and the files as they were.
C7_IdleGuidConversionNoOp ==
    [][ (Called("OleGetAutoConvert") /\ _last_pstg = None)
        => UNCHANGED << objects, _last_pstg, files >> ]_vars

\* The latest call read an identifier while idle; tracked objects are there, unclassified.
C7_Witness ==
    /\ event.kind = "OleGetAutoConvert" /\ event.readable /\ exc = NoExc
    /\ _last_pstg = None /\ shadowed = None
    /\ DOMAIN objects # {}
    /\ \A h \in DOMAIN objects : "class_id" \notin DOMAIN objects[h]

\* C8: after a data-conversion call whose reads succeeded (and whose file
\* could be opened), a file named by the digest of the first N bytes holds
\* exactly those bytes, and the object of the call's pStg has length N and
\* that digest.
C8_ExtractionFidelity ==
    (event.kind = "OleConvertOLESTREAMToIStorage" /\ event.fault = "none"
        /\ event.size <= Len(event.mem) /\ exc = NoExc)
    => LET B == Prefix(event.mem, event.size)
       IN  /\ sha256(B) \in DOMAIN files
           /\ files[sha256(B)] = B
           /\ Len(files[sha256(B)]) = event.size
           /\ event.pstg \in DOMAIN objects
           /\ objects[event.pstg] = [size |-> event.size, sha256 |-> sha256(B)]

\* A call that read a non-empty buffer completed.
C8_Witness ==
    /\ event.kind = "OleConvertOLESTREAMToIStorage" /\ exc = NoExc
    /\ event.size = MaxLen
    /\ objects[event.pstg].size = MaxLen
    /\ Cardinality(DOMAIN files) >= 2

\* C9: a data-conversion call one of whose reads fails writes no file and
\* neither adds nor changes an object.
C9_FailedReadNoOutput ==
    [][ (Called("OleConvertOLESTREAMToIStorage")
            /\ (event'.fault \in {"inner", "outer", "length"}
                \/ event'.size > Len(event'.mem)))
        => objects' = objects /\ files' = files ]_vars

\* The length field could not be read, in a call for a handle tracked before.
C9_Witness ==
    /\ event.kind = "OleConvertOLESTREAMToIStorage" /\ event.fault = "length"
    /\ exc = "WindowsError"
    /\ event.pstg \in DOMAIN objects
    /\ objects[event.pstg].size = MaxLen

\* C10: a failed read in the data-conversion method does not end the loop:
\* when the event is resumed no exception is propagating.
C10_ReadFailureIsLocal ==
    (pc = "cont" /\ event.kind = "OleConvertOLESTREAMToIStorage" /\ ReadsFail(event))
    => exc = NoExc

\* C11: when ole32.dll has loaded with exactly one declared function not
\* resolving, every function that resolved is hooked, in whatever order the
\* functions were visited, and no exception ends the session.
C11_OtherHooksInstalled ==
    (pc = "cont" /\ event.kind = "load_dll" /\ event.matches
        /\ Cardinality(Funcs \ event.resolved) = 1)
    => event.resolved \subseteq hooks /\ exc = NoExc

\* C12: in a session started with save_objs off no file is ever written.
C12_FlagOffWritesNothing ==
    ~save_objs => files = << >>

\* C13: when office_debugger has returned, what its caller got is the
\* objects tracked during the run.
C13_ResultIsTrackedObjects ==
    pc = "returned" => result # None /\ result = objects

\* C14: a launch that failed is logged as an error, and from then on the
\* session is at the loop condition, at stop or over: no wait (the clock has
\* not moved, no event was delivered), no dispatch, no resume, no exception.
C14_LaunchFailureGoesToStop ==
    LET failed == Logged("error",
                    "Could not run Office application, check it is 32-bit") \in log
    IN  /\ (pc # "execv" /\ debugees = 0 /\ nEvents = 0 /\ stopCalls = 0) => failed
        /\ failed => /\ pc \in {"while", "stop", "returned"}
                     /\ nEvents = 0 /\ owed = 0 /\ event = NoEvent
                     /\ now = 0 /\ exc = NoExc

\* The launch failed and office_debugger returned after one stop.
C14_Witness ==
    /\ pc = "returned" /\ stopCalls = 1 /\ nEvents = 0 /\ now = 0
    /\ log = {Logged("error", "Could not run Office application, check it is 32-bit")}

\* C15: every record that a classification with a known identifier logs
\* has a strictly higher level than every record that a classification
\* with an identifier absent from the table logs.
C15_KnownLoggedHigher ==
    [][ (Called("OleGetAutoConvert") /\ Truthy(_last_pstg) /\ exc' = NoExc
            /\ bytes_to_clsid(event'.clsid_bytes) \in DOMAIN KNOWN_CLSIDS)
        => \A b \in ClsidSamples :
              bytes_to_clsid(b) \notin DOMAIN KNOWN_CLSIDS
              => \A known \in log', absent \in ClassificationLog(bytes_to_clsid(b)) :
                    Severity(known.level) > Severity(absent.level) ]_vars

\* C16: no call of a hook method removes a key of objects: a handle that is
\* tracked stays tracked in every later state.
C16_NeverDeleted ==
    [][ DOMAIN objects \subseteq DOMAIN objects' ]_vars

\* Two handles are tracked, one object classified, and a load came after.
C16_Witness ==
    /\ Cardinality(DOMAIN objects) = 2
    /\ \E h \in DOMAIN objects : "class_id" \in DOMAIN objects[h]
    /\ event.kind = "OleLoad"

\* C17: a call of _hook_load or _hook_guid_conversion on one handler leaves
\* what every other handler reads as self._last_pstg and as self.objects
\* unchanged, in whatever order the calls of the two handlers come.
C17_NoInterference ==
    [][ (nEvents' = nEvents + 1
            /\ event'.kind \in {"OleLoad", "OleGetAutoConvert"})
        => \A g \in DOMAIN attrs \ {HandlerClass, event'.self} :
              /\ GetAttr(attrs', g, "_last_pstg") = GetAttr(attrs, g, "_last_pstg")
              /\ GetAttr(attrs', g, "objects") = GetAttr(attrs, g, "objects") ]_vars

\* Both handlers have a handle pending, each its own, and one has just
\* classified its object while the other's handle is still pending.
C17_Witness ==
    /\ DOMAIN attrs = HandlerIds \cup {HandlerClass}
    /\ event.kind = "OleGetAutoConvert" /\ exc = NoExc
    /\ \E h \in HandlerIds, g \in HandlerIds :
         /\ h = event.self /\ g # h
         /\ GetAttr(attrs, h, "_last_pstg") = None
         /\ \E k \in DOMAIN attrs[h].objects : "class_id" \in DOMAIN attrs[h].objects[k]
         /\ Truthy(GetAttr(attrs, g, "_last_pstg"))
         /\ attrs[g].objects = << >>

\* C18: in every state each tracked object has a file named by its digest
\* whose content is as long as the object's recorded size.
C18_EveryObjectHasItsFile ==
    \A h \in DOMAIN objects :
        /\ objects[h].sha256 \in DOMAIN files
        /\ Len(files[objects[h].sha256]) = objects[h].size

\* C19: a data-conversion call that completes for a handle already tracked
\* leaves under the handle an object with the new size and digest and no
\* other key, whatever it held, and changes neither the pending slot nor any
\* other object.
C19_ConversionReplacesObject ==
    [][ (Called("OleConvertOLESTREAMToIStorage") /\ exc' = NoExc
            /\ event'.pstg \in DOMAIN objects)
        => LET p == event'.pstg IN
           /\ DOMAIN objects'[p] = {"size", "sha256"}
           /\ objects'[p].size = event'.size
           /\ objects'[p].sha256 = sha256(Prefix(event'.mem, event'.size))
           /\ _last_pstg' = _last_pstg
           /\ DOMAIN objects' = DOMAIN objects
           /\ \A h \in DOMAIN objects \ {p} : objects'[h] = objects[h] ]_vars

\* The one tracked handle was loaded twice and classified (the slot is empty
\* again), and the conversion that came after left its object unclassified.
C19_Witness ==
    /\ event.kind = "OleConvertOLESTREAMToIStorage" /\ exc = NoExc
    /\ DOMAIN objects = {event.pstg}
    /\ "class_id" \notin DOMAIN objects[event.pstg]
    /\ shadowed = event.pstg /\ _last_pstg = None

\* C20: whatever handle an object-load call left in the slot, 0 included,
\* the next guid-conversion call (its identifier readable, the handle
\* tracked) classifies the object of that handle and empties the slot.
C20_EveryHandlePends ==
    [][ /\ Called("OleLoad") => _last_pstg' = event'.pstg
        /\ (Called("OleGetAutoConvert") /\ event'.readable
               /\ _last_pstg \in Handles /\ _last_pstg \in DOMAIN objects)
           => /\ _last_pstg' = None
              /\ "class_id" \in DOMAIN objects'[_last_pstg]
              /\ objects'[_last_pstg].class_id = bytes_to_clsid(event'.clsid_bytes) ]_vars

====
